---- MODULE Spec2Model ----
(***************************************************************************)
(* Model of src/src/collection.ts: the Collection class of the MongoDB     *)
(* Node.js driver.  A Collection is constructed over a database            *)
(* configuration; every public method normalises its arguments, resolves   *)
(* its options and hands one operation to the executor (or to a cursor     *)
(* constructor), or throws.                                                *)
(*                                                                         *)
(* JavaScript values are tagged records: the tag k is the value's kind,    *)
(* the other field carries its content.  An object is a function from its  *)
(* keys to values; an absent key reads as Undefined.                       *)
(*                                                                         *)
(* Every record constructor lists its fields in the order in which the     *)
(* field names first occur in this module, which is the order TLC keeps    *)
(* the fields of a record in.                                              *)
(***************************************************************************)
EXTENDS Integers, Sequences, FiniteSets, TLC

VARIABLES db, s, pc, call, op, thrown, callerOptions, warned, warnings, warning

vars == <<db, s, pc, call, op, thrown, callerOptions, warned, warnings, warning>>

----------------------------------------------------------------------------
(* Bounds of the model *)

\* skip and limit options range over -MaxNum .. MaxNum
MaxNum == 2
\* raw byte buffers passed as the query have at most MaxBufLen bytes
MaxBufLen == 5

----------------------------------------------------------------------------
(* JavaScript values *)

Undefined == [k |-> "undefined"]
Null == [k |-> "null"]
Bool(b) == [k |-> "boolean", b |-> b]
Num(n) == [k |-> "number", n |-> n]
Str(x) == [s |-> x, k |-> "string"]
Fn(name) == [k |-> "function", f |-> name]
Obj(d) == [k |-> "object", o |-> d]
Arr(a) == [k |-> "array", a |-> a]
Buf(bytes) == [k |-> "buffer", bytes |-> bytes]
ObjectID(n) == [k |-> "objectid", id |-> n]
\* an instance of the ReadPreference class
RP(mode) == [k |-> "readpreference", mode |-> mode]
\* a reference to a driver object (the Db, a session)
Ref(name) == [k |-> "ref", r |-> name]

EmptyDoc == [x \in {} |-> Undefined]

\* a one-key key-value function and the object { key: v }
KV(key, v) == [x \in {key} |-> v]
Doc1(key, v) == Obj(KV(key, v))

\* typeof v
TypeOf(v) ==
  CASE v.k = "undefined" -> "undefined"
    [] v.k = "boolean" -> "boolean"
    [] v.k = "number" -> "number"
    [] v.k = "string" -> "string"
    [] v.k = "function" -> "function"
    [] OTHER -> "object"

\* v == null
IsNullish(v) == v.k \in {"undefined", "null"}

\* the truthiness of v, as `v ? a : b`, `!v` and `v || w` test it
Truthy(v) ==
  CASE v.k \in {"undefined", "null"} -> FALSE
    [] v.k = "boolean" -> v.b
    [] v.k = "number" -> v.n # 0
    [] v.k = "string" -> v.s # ""
    [] OTHER -> TRUE

IsArray(v) == v.k = "array"
IsBuffer(v) == v.k = "buffer"

\* v || w
OrElse(v, w) == IF Truthy(v) THEN v ELSE w

\* o[key] of an object given by its key-value function
Get(d, key) == IF key \in DOMAIN d THEN d[key] ELSE Undefined

\* o[key] = v
Put(d, key, v) == [x \in DOMAIN d \cup {key} |-> IF x = key THEN v ELSE d[x]]

\* Object.assign({}, a, b) on key-value functions
Assign(a, b) == [x \in DOMAIN a \cup DOMAIN b |-> IF x \in DOMAIN b THEN b[x] ELSE a[x]]

\* v.key for any value v that is not null or undefined: a property read of a
\* plain object or the mode of a ReadPreference; the other kinds modelled
\* here have no property that the code reads
Prop(v, key) ==
  IF v.k = "object" THEN Get(v.o, key)
  ELSE IF v.k = "readpreference" /\ key = "mode" THEN Str(v.mode)
  ELSE Undefined

\* the own enumerable properties of v as Object.assign({}, v) copies them
Props(v) == IF v.k = "object" THEN v.o ELSE EmptyDoc

\* args[i] of an arguments list, 1-based; a missing argument is undefined
Arg(args, i) == IF i <= Len(args) THEN args[i] ELSE Undefined

----------------------------------------------------------------------------
(* Collaborators of collection.ts that live in other modules of the driver *)

\* ReadPreference.PRIMARY
PRIMARY == Str("primary")

\* the mode of a read preference given as a mode string or as an instance
ModeOf(rp) == IF rp.k = "string" THEN rp.s ELSE IF rp.k = "readpreference" THEN rp.mode ELSE ""

\* ReadPreference.fromOptions, ReadConcern.fromOptions, WriteConcern.fromOptions:
\* the setting stored in an options object under key, null when there is none
FromOptions(options, key) ==
  IF IsNullish(options) \/ IsNullish(Prop(options, key)) THEN Null ELSE Prop(options, key)

\* MongoDBNamespace.toString
NamespaceToString(ns) == ns.db \o "." \o ns.collection

\* ReadPreference.resolve(collection, options): the call's read preference,
\* else the collection's, else the database's
Resolve(coll, dbv, options) ==
  IF ~IsNullish(Get(options, "readPreference")) THEN Get(options, "readPreference")
  ELSE IF ~IsNullish(coll.readPreference) THEN coll.readPreference
  ELSE dbv.readPreference

\* normalizeHintField: a field name or a sequence of field names becomes the
\* document naming each field ascending; a document is passed through
normalizeHintField(hint) ==
  CASE hint.k = "string" -> Obj([x \in {hint.s} |-> Num(1)])
    [] hint.k = "array" -> Obj([x \in {hint.a[i].s : i \in DOMAIN hint.a} |-> Num(1)])
    [] OTHER -> hint

\* a canonical ordered document: a sequence of (field, direction) pairs
OrderedDoc(pairs) == [k |-> "ordered", pairs |-> pairs]

\* formattedOrderClause: a sequence of (field, direction) pairs or a single
\* field name becomes the canonical ordered document; a document (its keys
\* in their order) already is one
formattedOrderClause(sort) ==
  CASE sort.k = "string" -> OrderedDoc(<<[field |-> sort.s, dir |-> Num(1)]>>)
    [] sort.k = "array" ->
         OrderedDoc([i \in DOMAIN sort.a |-> [field |-> sort.a[i].a[1].s, dir |-> sort.a[i].a[2]]])
    [] OTHER -> sort

\* the options that belong to the canonical find command
FIND_COMMAND_KEYS == {"sort", "hint", "noCursorTimeout", "awaitData"}

\* decorateCommand(command, options, names): attaches to the command the
\* options of the canonical command shape and the named documents, verbatim,
\* when the options carry them
decorateCommand(command, options, names) ==
  LET present == {x \in (FIND_COMMAND_KEYS \cup names) \cap DOMAIN options : ~IsNullish(options[x])}
  IN [x \in DOMAIN command \cup present |-> IF x \in present THEN options[x] ELSE command[x]]

\* decorateWithReadConcern(command, collection, options)
decorateWithReadConcern(command, coll, options) ==
  IF ~IsNullish(coll.readConcern) THEN Put(command, "readConcern", coll.readConcern) ELSE command

\* decorateWithCollation(command, collection, options)
decorateWithCollation(command, coll, options) ==
  IF TypeOf(Get(options, "collation")) = "object" /\ ~IsNullish(Get(options, "collation"))
  THEN Put(command, "collation", Get(options, "collation"))
  ELSE command

----------------------------------------------------------------------------
(* Errors *)

NoError == [name |-> "none", message |-> ""]
TypeError(msg) == [name |-> "TypeError", message |-> msg]
Error(msg) == [name |-> "Error", message |-> msg]
MongoError(msg) == [name |-> "MongoError", message |-> msg]

----------------------------------------------------------------------------
(* The constructor *)

mergeKeys == {"ignoreUndefined"}

\* options == null || options[key] == null ? db.s.options[key] : options[key]
Inherit(dbv, options, key) ==
  IF IsNullish(options) \/ IsNullish(Prop(options, key))
  THEN Get(dbv.options, key)
  ELSE Prop(options, key)

Constructor(dbv, dbName, name, pkFactory, options) ==
  [ options |-> options,
    readPreference |-> FromOptions(options, "readPreference"),
    readConcern |-> FromOptions(options, "readConcern"),
    pkFactory |-> IF IsNullish(pkFactory) THEN Ref("ObjectId") ELSE pkFactory,
    namespace |-> [db |-> dbName, collection |-> name],
    slaveOk |-> IF IsNullish(options) \/ IsNullish(Prop(options, "slaveOk"))
                THEN dbv.slaveOk ELSE Prop(options, "slaveOk"),
    serializeFunctions |-> Inherit(dbv, options, "serializeFunctions"),
    raw |-> Inherit(dbv, options, "raw"),
    promoteLongs |-> Inherit(dbv, options, "promoteLongs"),
    promoteValues |-> Inherit(dbv, options, "promoteValues"),
    promoteBuffers |-> Inherit(dbv, options, "promoteBuffers"),
    internalHint |-> Null,
    collectionHint |-> Null,
    writeConcern |-> FromOptions(options, "writeConcern") ]

\* util.deprecate(fn, msg): the wrapper emits msg as a warning on its first
\* call, when its flag is not yet set, sets the flag and calls fn in every
\* call; these are the warning a call emits (none is "") and the number of
\* warnings emitted once the call has run
WarningOf(flag, msg) == IF flag THEN "" ELSE msg
WarningsAfter(flag, count) == IF flag THEN count ELSE count + 1

----------------------------------------------------------------------------
(* Collection.prototype.find *)

\* object[i] of a buffer in a bitwise expression, 0-based; a missing byte
\* (undefined) counts as 0
ByteAt(bytes, i) == IF i + 1 <= Len(bytes) THEN bytes[i + 1] ELSE 0

\* object[0] | (object[1] << 8) | (object[2] << 16) | (object[3] << 24),
\* a signed 32-bit integer
ObjectSize(bytes) ==
  LET b3 == ByteAt(bytes, 3)
      hi == IF b3 >= 128 THEN b3 - 256 ELSE b3
  IN ByteAt(bytes, 0) + ByteAt(bytes, 1) * 256 + ByteAt(bytes, 2) * 65536 + hi * 16777216

RawSelector_KeepsArrays(query) ==
  IF query.k # "null" /\ TypeOf(query) = "object" THEN query ELSE Obj(EmptyDoc)

\* the selector before the ObjectID special case
RawSelector(query) ==
  IF query.k # "null" /\ TypeOf(query) = "object" /\ ~IsArray(query) THEN query ELSE Obj(EmptyDoc)

SizeMatches_AtMost(bytes) == ObjectSize(bytes) <= Len(bytes)

\* the size check of a selector that is a raw buffer
SizeMatches(bytes) == ObjectSize(bytes) = Len(bytes)

\* the selector of the find command
Selector(query) ==
  LET selector == RawSelector(query)
  IN IF selector.k = "objectid" THEN Obj([x \in {"_id"} |-> selector]) ELSE selector

\* the error find throws for its arguments, NoError when it throws none
FindError(args) ==
  LET query == Arg(args, 1)
      options == Arg(args, 2)
      selector == RawSelector(query)
  IN IF Len(args) > 2
     THEN TypeError("Third parameter to collection.find() must be undefined")
     ELSE IF TypeOf(query) = "function"
     THEN TypeError("query parameter must not be function")
     ELSE IF TypeOf(options) = "function"
     THEN TypeError("options parameter must not be function")
     ELSE IF IsBuffer(selector) /\ ~SizeMatches(selector.bytes)
     THEN [name |-> "MongoError",
           message |-> "query selector raw message size does not match message header size"]
     ELSE IF ~IsNullish(Selector(query)) /\ TypeOf(Selector(query)) # "object"
     THEN MongoError("query selector must be an object")
     ELSE NoError

Projection_FieldsFirst(options) ==
  LET projection == OrElse(Get(options, "fields"), Get(options, "projection"))
  IN IF Truthy(projection) /\ ~IsBuffer(projection) /\ IsArray(projection)
     THEN IF Len(projection.a) # 0
          THEN Obj([x \in {projection.a[i].s : i \in DOMAIN projection.a} |-> Num(1)])
          ELSE Obj([x \in {"_id"} |-> Num(1)])
     ELSE projection

\* the projection of the find command, undefined when there is none
Projection(options) ==
  LET projection == OrElse(Get(options, "projection"), Get(options, "fields"))
  IN IF Truthy(projection) /\ ~IsBuffer(projection) /\ IsArray(projection)
     THEN IF Len(projection.a) # 0
          THEN Obj([x \in {projection.a[i].s : i \in DOMAIN projection.a} |-> Num(1)])
          ELSE Obj([x \in {"_id"} |-> Num(1)])
     ELSE projection

FindSkip_IgnoresOption(options) == Num(0)

\* newOptions.skip and newOptions.limit
FindSkip(options) == IF Truthy(Get(options, "skip")) THEN Get(options, "skip") ELSE Num(0)
FindLimit(options) == IF Truthy(Get(options, "limit")) THEN Get(options, "limit") ELSE Num(0)

ForcesSlaveOk_ModeStringsOnly(readPreference) ==
  /\ ~IsNullish(readPreference)
  /\ TypeOf(readPreference) = "string"
  /\ readPreference # PRIMARY

\* does the resolved read preference force slaveOk
ForcesSlaveOk(readPreference) ==
  /\ ~IsNullish(readPreference)
  /\ (readPreference # PRIMARY \/ Prop(readPreference, "mode") # PRIMARY)

TranslateTimeout_Inverted(newOptions) ==
  IF TypeOf(Get(newOptions, "timeout")) = "boolean"
  THEN Put(newOptions, "noCursorTimeout", Bool(~Get(newOptions, "timeout").b))
  ELSE newOptions

\* newOptions with the legacy timeout flag translated
TranslateTimeout(newOptions) ==
  IF TypeOf(Get(newOptions, "timeout")) = "boolean"
  THEN Put(newOptions, "noCursorTimeout", Get(newOptions, "timeout"))
  ELSE newOptions

\* newOptions as it is when the find command is decorated
FindOptionsUnpacked(coll, dbv, options) ==
  LET copied == Assign(EmptyDoc, options)
      merged == Assign(copied, [x \in DOMAIN Props(coll.options) \cap mergeKeys |-> Props(coll.options)[x]])
      o1 == Put(merged, "skip", FindSkip(options))
      o2 == Put(o1, "limit", FindLimit(options))
      o3 == Put(o2, "raw", IF TypeOf(Get(options, "raw")) = "boolean" THEN Get(options, "raw") ELSE coll.raw)
      o4 == Put(o3, "hint", IF ~IsNullish(Get(options, "hint"))
                            THEN normalizeHintField(Get(options, "hint")) ELSE coll.collectionHint)
      o5 == Put(o4, "timeout", Get(options, "timeout"))
      o6 == Put(o5, "slaveOk", IF ~IsNullish(Get(options, "slaveOk")) THEN Get(options, "slaveOk") ELSE dbv.slaveOk)
      o7 == Put(o6, "readPreference", Resolve(coll, dbv, o6))
      o8 == IF ForcesSlaveOk(Get(o7, "readPreference")) THEN Put(o7, "slaveOk", Bool(TRUE)) ELSE o7
      o9 == IF TypeOf(Get(o8, "awaitdata")) = "boolean" THEN Put(o8, "awaitData", Get(o8, "awaitdata")) ELSE o8
  IN TranslateTimeout(o9)

\* a serialization flag left unset by the call falls back to the one of the collection
Fallback(newOptions, coll, key) ==
  IF IsNullish(Get(newOptions, key)) /\ TypeOf(coll[key]) = "boolean"
  THEN Put(newOptions, key, coll[key])
  ELSE newOptions

\* newOptions as handed to the FindOperation and the Cursor
FindNewOptions(coll, dbv, options) ==
  LET o1 == Put(FindOptionsUnpacked(coll, dbv, options), "db", Ref("db"))
      o2 == Fallback(o1, coll, "raw")
      o3 == Fallback(o2, coll, "promoteLongs")
      o4 == Fallback(o3, coll, "promoteValues")
  IN Fallback(o4, coll, "promoteBuffers")

BuildFindCommand_NameOnly(coll, selector, newOptions) ==
  [ query |-> selector,
    find |-> Str(coll.namespace.collection),
    limit |-> Get(newOptions, "limit"),
    skip |-> Get(newOptions, "skip") ]

\* the find command as built before it is decorated
BuildFindCommand(coll, selector, newOptions) ==
  [ query |-> selector,
    find |-> Str(NamespaceToString(coll.namespace)),
    limit |-> Get(newOptions, "limit"),
    skip |-> Get(newOptions, "skip") ]

FormatSort_Skipped(findCommand) == findCommand

\* findCommand.sort, when there is one, is formatted
FormatSort(findCommand) ==
  IF Truthy(Get(findCommand, "sort"))
  THEN Put(findCommand, "sort", formattedOrderClause(Get(findCommand, "sort")))
  ELSE findCommand

\* the find command handed to the FindOperation
FindCommand(coll, dbv, query, callOptions) ==
  LET options == IF ~Truthy(callOptions) THEN EmptyDoc ELSE Props(callOptions)
      projection == Projection(options)
      newOptions == FindOptionsUnpacked(coll, dbv, options)
      c1 == BuildFindCommand(coll, Selector(query), newOptions)
      c2 == IF TypeOf(Get(options, "allowDiskUse")) = "boolean"
            THEN Put(c1, "allowDiskUse", Get(options, "allowDiskUse")) ELSE c1
      c3 == decorateCommand(c2, newOptions, {"session", "collation"})
      c4 == IF Truthy(projection) THEN Put(c3, "fields", projection) ELSE c3
      c5 == FormatSort(c4)
      c6 == decorateWithReadConcern(c5, coll, options)
  IN decorateWithCollation(c6, coll, options)

----------------------------------------------------------------------------
(* The outcome of a call: the error it throws (NoError when none), the      *)
(* operation it hands to the executor or wraps in a cursor (NoOp when none),*)
(* the options object the caller passed (undefined when the caller passed   *)
(* none) and that same object as the call leaves it.                        *)

NoOp == [kind |-> "none"]

Outcome(error, operation, passed, after) ==
  [op |-> operation, thrown |-> error, passed |-> passed, after |-> after]

\* the object the caller passed in an options position, undefined when the
\* value there is not an object
PassedObject(v) == IF v.k = "object" THEN v ELSE Undefined

\* if (typeof options === 'function') (callback = options), (options = {}):
\* the options and the callback of a method whose options are args[i]
ShiftedOptions(args, i) == IF TypeOf(Arg(args, i)) = "function" THEN Obj(EmptyDoc) ELSE Arg(args, i)
ShiftedCallback(args, i) == IF TypeOf(Arg(args, i)) = "function" THEN Arg(args, i) ELSE Arg(args, i + 1)

\* const args = Array.prototype.slice.call(arguments, n);
\* callback = typeof args[args.length - 1] === 'function' ? args.pop() : undefined
Rest(args, n) == SubSeq(args, n + 1, Len(args))
HasTrailingCallback(rest) == Len(rest) > 0 /\ TypeOf(rest[Len(rest)]) = "function"
PoppedCallback(rest) == IF HasTrailingCallback(rest) THEN rest[Len(rest)] ELSE Undefined
Popped(rest) == IF HasTrailingCallback(rest) THEN SubSeq(rest, 1, Len(rest) - 1) ELSE rest

\* args.length ? args.shift() || fallback : fallback, for the i-th shift
Shifted(rest, i, fallback) == IF i <= Len(rest) THEN OrElse(rest[i], fallback) ELSE fallback

\* fn.toString()
SourceOf(fn) == Str("function " \o fn.f)

\* the options with the ignoreUndefined of the collection cascaded onto a copy
AddIgnoreUndefined(coll, options) ==
  IF Truthy(Prop(coll.options, "ignoreUndefined"))
  THEN Obj(Put(Props(options), "ignoreUndefined", Prop(coll.options, "ignoreUndefined")))
  ELSE options

\* Collection.insertOne
InsertOneCall(coll, args) ==
  LET options == OrElse(ShiftedOptions(args, 2), Obj(EmptyDoc))
  IN Outcome(NoError,
             [ options |-> Props(AddIgnoreUndefined(coll, options)),
               kind |-> "InsertOneOperation",
               payload |-> Arg(args, 1),
               callback |-> ShiftedCallback(args, 2) ],
             PassedObject(Arg(args, 2)), PassedObject(Arg(args, 2)))

\* Collection.insertMany
InsertManyCall(coll, args) ==
  LET options == ShiftedOptions(args, 2)
  IN Outcome(NoError,
             [ options |-> IF Truthy(options) THEN Assign(EmptyDoc, Props(options))
                           ELSE KV("ordered", Bool(TRUE)),
               kind |-> "InsertManyOperation",
               payload |-> Arg(args, 1),
               callback |-> ShiftedCallback(args, 2) ],
             PassedObject(Arg(args, 2)), PassedObject(Arg(args, 2)))

BulkWriteCall_Unvalidated(coll, args) ==
  LET options == OrElse(ShiftedOptions(args, 2), Doc1("ordered", Bool(TRUE)))
  IN Outcome(NoError,
             [ options |-> Props(options),
               kind |-> "BulkWriteOperation",
               payload |-> Arg(args, 1),
               callback |-> ShiftedCallback(args, 2) ],
             PassedObject(Arg(args, 2)), PassedObject(Arg(args, 2)))

\* Collection.bulkWrite
BulkWriteCall(coll, args) ==
  LET options == OrElse(ShiftedOptions(args, 2), Doc1("ordered", Bool(TRUE)))
  IN IF ~IsArray(Arg(args, 1))
     THEN Outcome(MongoError("operations must be an array of documents"), NoOp,
                  PassedObject(Arg(args, 2)), PassedObject(Arg(args, 2)))
     ELSE Outcome(NoError,
                  [ options |-> Props(options),
                    kind |-> "BulkWriteOperation",
                    payload |-> Arg(args, 1),
                    callback |-> ShiftedCallback(args, 2) ],
                  PassedObject(Arg(args, 2)), PassedObject(Arg(args, 2)))

\* the options of the legacy insert as it delegates them: ordered is set to
\* false on the options object itself when keepGoing is true
InsertOptions(args) ==
  LET options == OrElse(ShiftedOptions(args, 2), Doc1("ordered", Bool(FALSE)))
  IN IF Prop(options, "keepGoing") = Bool(TRUE)
     THEN Obj(Put(Props(options), "ordered", Bool(FALSE)))
     ELSE options

\* Collection.prototype.insert
InsertCall(coll, args) ==
  LET docs == IF ~IsArray(Arg(args, 1)) THEN Arr(<<Arg(args, 1)>>) ELSE Arg(args, 1)
      delegated == InsertManyCall(coll, <<docs, InsertOptions(args), ShiftedCallback(args, 2)>>)
  IN Outcome(delegated.thrown, delegated.op, PassedObject(Arg(args, 2)),
             IF Arg(args, 2).k = "object" THEN InsertOptions(args) ELSE Undefined)

RenameCall_CallerPreferenceLast(coll, args) ==
  Outcome(NoError,
          [ options |-> Assign(KV("readPreference", PRIMARY), Props(ShiftedOptions(args, 2))),
            kind |-> "RenameOperation",
            payload |-> Arg(args, 1),
            callback |-> ShiftedCallback(args, 2) ],
          PassedObject(Arg(args, 2)), PassedObject(Arg(args, 2)))

\* Collection.rename
RenameCall(coll, args) ==
  Outcome(NoError,
          [ options |-> Assign(Props(ShiftedOptions(args, 2)), KV("readPreference", PRIMARY)),
            kind |-> "RenameOperation",
            payload |-> Arg(args, 1),
            callback |-> ShiftedCallback(args, 2) ],
          PassedObject(Arg(args, 2)), PassedObject(Arg(args, 2)))

\* Collection.dropIndex
DropIndexCall(coll, args) ==
  LET rest == Rest(args, 1)
      options == Shifted(Popped(rest), 1, Obj(EmptyDoc))
      forced == Obj(Put(Props(options), "readPreference", PRIMARY))
  IN Outcome(NoError,
             [ options |-> forced.o,
               kind |-> "DropIndexOperation",
               payload |-> Arg(args, 1),
               callback |-> PoppedCallback(rest) ],
             PassedObject(Arg(Popped(rest), 1)),
             IF Arg(Popped(rest), 1).k = "object" THEN forced ELSE Undefined)

\* _findAndModify, Collection.prototype.findAndModify
FindAndModifyCall(coll, args) ==
  LET rest == Rest(args, 1)
      left == Popped(rest)
      sort == Shifted(left, 1, Arr(<<>>))
      doc == IF Len(left) >= 2 THEN left[2] ELSE Null
      options == Shifted(left, 3, Obj(EmptyDoc))
  IN Outcome(NoError,
             [ options |-> Put(Assign(EmptyDoc, Props(options)), "readPreference", PRIMARY),
               kind |-> "FindAndModifyOperation",
               payload |-> [sort |-> sort, query |-> Arg(args, 1), doc |-> doc],
               callback |-> PoppedCallback(rest) ],
             PassedObject(Arg(left, 3)), PassedObject(Arg(left, 3)))

\* Collection.prototype.findAndRemove
FindAndRemoveCall(coll, args) ==
  LET rest == Rest(args, 1)
      left == Popped(rest)
      sort == Shifted(left, 1, Arr(<<>>))
      options == Shifted(left, 2, Obj(EmptyDoc))
      marked == Obj(Put(Props(options), "remove", Bool(TRUE)))
  IN Outcome(NoError,
             [ options |-> marked.o,
               kind |-> "FindAndModifyOperation",
               payload |-> [sort |-> sort, query |-> Arg(args, 1), doc |-> Null],
               callback |-> PoppedCallback(rest) ],
             PassedObject(Arg(left, 2)),
             IF Arg(left, 2).k = "object" THEN marked ELSE Undefined)

\* Collection.mapReduce
MapReduceCall(coll, args) ==
  LET options == ShiftedOptions(args, 3)
      map == IF TypeOf(Arg(args, 1)) = "function" THEN SourceOf(Arg(args, 1)) ELSE Arg(args, 1)
      reduce == IF TypeOf(Arg(args, 2)) = "function" THEN SourceOf(Arg(args, 2)) ELSE Arg(args, 2)
      finalized == IF TypeOf(Prop(options, "finalize")) = "function"
                   THEN Obj(Put(Props(options), "finalize", SourceOf(Prop(options, "finalize"))))
                   ELSE options
  IN IF IsNullish(options)
     THEN Outcome(TypeError("Cannot read property out of undefined"), NoOp,
                  Undefined, Undefined)
     ELSE IF IsNullish(Prop(options, "out"))
     THEN Outcome(Error("the out option parameter must be defined, see mongodb docs for possible values"),
                  NoOp, PassedObject(Arg(args, 3)), PassedObject(Arg(args, 3)))
     ELSE Outcome(NoError,
                  [ options |-> finalized.o,
                    kind |-> "MapReduceOperation",
                    payload |-> [map |-> map, reduce |-> reduce],
                    callback |-> ShiftedCallback(args, 3) ],
                  PassedObject(Arg(args, 3)),
                  IF Arg(args, 3).k = "object" THEN finalized ELSE Undefined)

\* the options of a bulk operation: ignoreUndefined is set on the options
\* object itself when the call does not give it
BulkOptions(coll, args) ==
  LET options == OrElse(Arg(args, 1), Obj(EmptyDoc))
  IN IF IsNullish(Prop(options, "ignoreUndefined"))
     THEN Obj(Put(Props(options), "ignoreUndefined", Prop(coll.options, "ignoreUndefined")))
     ELSE options

\* Collection.initializeUnorderedBulkOp
InitializeUnorderedBulkOpCall(coll, args) ==
  Outcome(NoError,
          [ options |-> BulkOptions(coll, args).o,
            kind |-> "UnorderedBulkOperation",
            payload |-> Undefined,
            callback |-> Undefined ],
          PassedObject(Arg(args, 1)),
          IF Arg(args, 1).k = "object" THEN BulkOptions(coll, args) ELSE Undefined)

\* Collection.initializeOrderedBulkOp
InitializeOrderedBulkOpCall(coll, args) ==
  Outcome(NoError,
          [ options |-> BulkOptions(coll, args).o,
            kind |-> "OrderedBulkOperation",
            payload |-> Undefined,
            callback |-> Undefined ],
          PassedObject(Arg(args, 1)),
          IF Arg(args, 1).k = "object" THEN BulkOptions(coll, args) ELSE Undefined)

\* options = Object.assign({}, options) followed by the ignoreUndefined cascade
CopiedOptions(coll, options) ==
  Props(AddIgnoreUndefined(coll, Obj(Assign(EmptyDoc, Props(options)))))

\* updateOne, replaceOne and updateMany: (filter, update, options, callback)
UpdateCall(kind, coll, args) ==
  Outcome(NoError,
          [ options |-> CopiedOptions(coll, ShiftedOptions(args, 3)),
            kind |-> kind,
            payload |-> [filter |-> Arg(args, 1), update |-> Arg(args, 2)],
            callback |-> ShiftedCallback(args, 3) ],
          PassedObject(Arg(args, 3)), PassedObject(Arg(args, 3)))

\* Collection.updateOne
UpdateOneCall(coll, args) == UpdateCall("UpdateOneOperation", coll, args)

\* Collection.replaceOne
ReplaceOneCall(coll, args) == UpdateCall("ReplaceOneOperation", coll, args)

\* Collection.updateMany
UpdateManyCall(coll, args) == UpdateCall("UpdateManyOperation", coll, args)

\* Collection.deleteOne
DeleteOneCall(coll, args) ==
  Outcome(NoError,
          [ options |-> CopiedOptions(coll, ShiftedOptions(args, 2)),
            kind |-> "DeleteOneOperation",
            payload |-> Arg(args, 1),
            callback |-> ShiftedCallback(args, 2) ],
          PassedObject(Arg(args, 2)), PassedObject(Arg(args, 2)))

\* the (filter, options, callback) of deleteMany after its three-way test of
\* the arguments
DeleteManyShape(args) ==
  IF IsNullish(Arg(args, 1))
  THEN [ options |-> Obj(EmptyDoc), callback |-> Undefined, filter |-> Obj(EmptyDoc) ]
  ELSE IF TypeOf(Arg(args, 1)) = "function"
  THEN [ options |-> Obj(EmptyDoc), callback |-> Arg(args, 1), filter |-> Obj(EmptyDoc) ]
  ELSE [ options |-> ShiftedOptions(args, 2),
         callback |-> ShiftedCallback(args, 2),
         filter |-> Arg(args, 1) ]

\* Collection.deleteMany
DeleteManyCall(coll, args) ==
  LET shape == DeleteManyShape(args)
  IN Outcome(NoError,
             [ options |-> CopiedOptions(coll, shape.options),
               kind |-> "DeleteManyOperation",
               payload |-> shape.filter,
               callback |-> shape.callback ],
             PassedObject(Arg(args, 2)), PassedObject(Arg(args, 2)))

\* options = options || {} followed by the ignoreUndefined cascade, as the
\* legacy update and remove delegate them
LegacyOptions(coll, args, i) ==
  AddIgnoreUndefined(coll, OrElse(ShiftedOptions(args, i), Obj(EmptyDoc)))

\* Collection.prototype.update
UpdateLegacyCall(coll, args) ==
  LET delegated == UpdateManyCall(coll, <<Arg(args, 1), Arg(args, 2), LegacyOptions(coll, args, 3),
                                          ShiftedCallback(args, 3)>>)
  IN Outcome(delegated.thrown, delegated.op,
             PassedObject(Arg(args, 3)), PassedObject(Arg(args, 3)))

\* Collection.prototype.remove
RemoveCall(coll, args) ==
  LET delegated == DeleteManyCall(coll, <<Arg(args, 1), LegacyOptions(coll, args, 2),
                                          ShiftedCallback(args, 2)>>)
  IN Outcome(delegated.thrown, delegated.op,
             PassedObject(Arg(args, 2)), PassedObject(Arg(args, 2)))

AggregateError_AllowsFunctionOptions(args) ==
  IF Len(args) > 2
  THEN TypeError("Third parameter to collection.aggregate() must be undefined")
  ELSE IF TypeOf(Arg(args, 1)) = "function"
  THEN TypeError("pipeline parameter must not be function")
  ELSE NoError

\* the error aggregate throws for its arguments, NoError when it throws none
AggregateError(args) ==
  IF Len(args) > 2
  THEN TypeError("Third parameter to collection.aggregate() must be undefined")
  ELSE IF TypeOf(Arg(args, 1)) = "function"
  THEN TypeError("pipeline parameter must not be function")
  ELSE IF TypeOf(Arg(args, 2)) = "function"
  THEN TypeError("options parameter must not be function")
  ELSE NoError

\* the options by which aggregate tells an options object from a pipeline stage
AGGREGATE_OPTION_KEYS ==
  {"readPreference", "explain", "cursor", "out", "maxTimeMS", "hint", "allowDiskUse"}

\* opts && (opts.readPreference || opts.explain || ... || opts.allowDiskUse)
HasAggregateOption(opts) ==
  Truthy(opts) /\ \E key \in AGGREGATE_OPTION_KEYS : Truthy(Prop(opts, key))

\* the (pipeline, options) of aggregate: a pipeline given as an array comes
\* with its options; stages given as arguments end with the options when the
\* last argument carries one of the options of aggregate
AggregateShape(args) ==
  IF IsArray(Arg(args, 1))
  THEN [ options |-> IF IsNullish(Arg(args, 2)) THEN Obj(EmptyDoc) ELSE Arg(args, 2),
         pipeline |-> Arg(args, 1) ]
  ELSE IF Len(args) > 0 /\ HasAggregateOption(args[Len(args)])
  THEN [ options |-> args[Len(args)], pipeline |-> Arr(SubSeq(args, 1, Len(args) - 1)) ]
  ELSE [ options |-> Obj(EmptyDoc), pipeline |-> Arr(args) ]

\* Collection.aggregate
AggregateCall(coll, args) ==
  IF AggregateError(args) # NoError
  THEN Outcome(AggregateError(args), NoOp, PassedObject(Arg(args, 2)), PassedObject(Arg(args, 2)))
  ELSE Outcome(NoError,
               [ options |-> Props(AggregateShape(args).options),
                 kind |-> "AggregateOperation",
                 payload |-> AggregateShape(args).pipeline,
                 callback |-> Undefined ],
               PassedObject(Arg(args, 2)), PassedObject(Arg(args, 2)))

\* the (query, options, callback) of findOne after its tests of the arguments
FindOneShape(args) ==
  IF TypeOf(Arg(args, 1)) = "function"
  THEN [ options |-> Obj(EmptyDoc), query |-> Obj(EmptyDoc), callback |-> Arg(args, 1) ]
  ELSE [ options |-> OrElse(ShiftedOptions(args, 2), Obj(EmptyDoc)),
         query |-> OrElse(Arg(args, 1), Obj(EmptyDoc)),
         callback |-> ShiftedCallback(args, 2) ]

FindOneCall_ChecksAfterDispatch(coll, args) ==
  Outcome(IF Arg(args, 3) # Undefined /\ TypeOf(Arg(args, 3)) # "function"
          THEN TypeError("Third parameter to findOne() must be a callback or undefined")
          ELSE NoError,
          [ options |-> Props(FindOneShape(args).options),
            kind |-> "FindOneOperation",
            payload |-> FindOneShape(args).query,
            callback |-> FindOneShape(args).callback ],
          PassedObject(Arg(args, 2)), PassedObject(Arg(args, 2)))

\* Collection.prototype.findOne
FindOneCall(coll, args) ==
  IF Arg(args, 3) # Undefined /\ TypeOf(Arg(args, 3)) # "function"
  THEN Outcome(TypeError("Third parameter to findOne() must be a callback or undefined"), NoOp,
               PassedObject(Arg(args, 2)), PassedObject(Arg(args, 2)))
  ELSE Outcome(NoError,
               [ options |-> Props(FindOneShape(args).options),
                 kind |-> "FindOneOperation",
                 payload |-> FindOneShape(args).query,
                 callback |-> FindOneShape(args).callback ],
               PassedObject(Arg(args, 2)), PassedObject(Arg(args, 2)))

\* Collection.drop
DropCall(coll, args) ==
  Outcome(NoError,
          [ options |-> Props(OrElse(ShiftedOptions(args, 1), Obj(EmptyDoc))),
            kind |-> "DropCollectionOperation",
            payload |-> Str(coll.namespace.collection),
            callback |-> ShiftedCallback(args, 1) ],
          PassedObject(Arg(args, 1)), PassedObject(Arg(args, 1)))

\* args.length ? args.shift() : null, for the i-th shift
ShiftedOrNull(rest, i) == IF i <= Len(rest) THEN rest[i] ELSE Null

\* Object.keys(keys) of a document of at most one key
ObjectKeys(d) == IF DOMAIN d = {} THEN <<>> ELSE <<Str(CHOOSE x \in DOMAIN d : TRUE)>>

\* Collection.prototype.group
GroupCall(coll, args) ==
  LET rest == Rest(args, 3)
      left == Popped(rest)
      reduce == ShiftedOrNull(left, 1)
      finalize == ShiftedOrNull(left, 2)
      command == IF TypeOf(finalize) = "function" THEN ShiftedOrNull(left, 3) ELSE finalize
      options == Shifted(left, 4, Obj(EmptyDoc))
      keys == IF Arg(args, 1).k = "object" THEN Arr(ObjectKeys(Arg(args, 1).o)) ELSE Arg(args, 1)
      defaulted == IF IsNullish(command) THEN Bool(TRUE) ELSE command
  IN Outcome(NoError,
             [ options |-> Props(options),
               kind |-> IF IsNullish(defaulted) THEN "EvalGroupOperation" ELSE "GroupOperation",
               payload |-> [ reduce |-> IF TypeOf(reduce) = "function"
                                        THEN SourceOf(reduce) ELSE reduce,
                             finalize |-> IF TypeOf(finalize) = "function"
                                          THEN SourceOf(finalize) ELSE Null,
                             keys |-> keys,
                             condition |-> Arg(args, 2),
                             initial |-> Arg(args, 3) ],
               callback |-> PoppedCallback(rest) ],
             PassedObject(Arg(left, 4)), PassedObject(Arg(left, 4)))

\* Collection.dropIndexes, which Collection.prototype.dropAllIndexes wraps
DropIndexesCall(coll, args) ==
  LET options == ShiftedOptions(args, 1)
      copied == IF Truthy(options) THEN Assign(EmptyDoc, Props(options)) ELSE EmptyDoc
  IN Outcome(NoError,
             [ options |-> IF TypeOf(Get(copied, "maxTimeMS")) # "number"
                           THEN [x \in DOMAIN copied \ {"maxTimeMS"} |-> copied[x]]
                           ELSE copied,
               kind |-> "DropIndexesOperation",
               payload |-> Undefined,
               callback |-> ShiftedCallback(args, 1) ],
             PassedObject(Arg(args, 1)), PassedObject(Arg(args, 1)))

EnsureIndexCall_WarnsOnly(coll, args) ==
  Outcome(NoError, NoOp, PassedObject(Arg(args, 2)), PassedObject(Arg(args, 2)))

\* Collection.prototype.ensureIndex
EnsureIndexCall(coll, args) ==
  Outcome(NoError,
          [ options |-> Props(OrElse(ShiftedOptions(args, 2), Obj(EmptyDoc))),
            kind |-> "EnsureIndexOperation",
            payload |-> Arg(args, 1),
            callback |-> ShiftedCallback(args, 2) ],
          PassedObject(Arg(args, 2)), PassedObject(Arg(args, 2)))

CountCall_Filtered(coll, args) ==
  LET left == Popped(args)
      query == Shifted(left, 1, Obj(EmptyDoc))
      options == ShiftedOptions(<<Shifted(left, 2, Obj(EmptyDoc))>>, 1)
  IN Outcome(NoError,
             [ options |-> Props(options),
               kind |-> IF Len(left) > 0 THEN "CountDocumentsOperation"
                        ELSE "EstimatedDocumentCountOperation",
               payload |-> query,
               callback |-> IF TypeOf(Shifted(left, 2, Obj(EmptyDoc))) = "function"
                            THEN Shifted(left, 2, Obj(EmptyDoc)) ELSE PoppedCallback(args) ],
             PassedObject(Arg(left, 2)), PassedObject(Arg(left, 2)))

\* Collection.prototype.count
CountCall(coll, args) ==
  LET left == Popped(args)
      query == Shifted(left, 1, Obj(EmptyDoc))
      options == ShiftedOptions(<<Shifted(left, 2, Obj(EmptyDoc))>>, 1)
  IN Outcome(NoError,
             [ options |-> Props(options),
               kind |-> "EstimatedDocumentCountOperation",
               payload |-> query,
               callback |-> IF TypeOf(Shifted(left, 2, Obj(EmptyDoc))) = "function"
                            THEN Shifted(left, 2, Obj(EmptyDoc)) ELSE PoppedCallback(args) ],
             PassedObject(Arg(left, 2)), PassedObject(Arg(left, 2)))

\* Collection.prototype.find
FindCall(coll, dbv, args) ==
  IF FindError(args) # NoError
  THEN Outcome(FindError(args), NoOp, PassedObject(Arg(args, 2)), PassedObject(Arg(args, 2)))
  ELSE Outcome(NoError,
               [ options |-> FindNewOptions(coll, dbv, IF ~Truthy(Arg(args, 2)) THEN EmptyDoc
                                                       ELSE Props(Arg(args, 2))),
                 ns |-> coll.namespace,
                 command |-> FindCommand(coll, dbv, Arg(args, 1), Arg(args, 2)),
                 kind |-> "FindOperation",
                 callback |-> Undefined ],
               PassedObject(Arg(args, 2)), PassedObject(Arg(args, 2)))

----------------------------------------------------------------------------
(* The inputs of the model *)

\* the configurations of the owning database
DbConfigs ==
  { [ options |-> [ raw |-> Bool(FALSE), promoteLongs |-> Bool(TRUE),
                    promoteValues |-> Bool(TRUE), promoteBuffers |-> Bool(FALSE) ],
      readPreference |-> rp,
      slaveOk |-> Bool(so) ]
    : so \in BOOLEAN, rp \in {Str("primary"), Str("secondary")} }

\* the options a collection is constructed with
CollectionOptions ==
  { Obj(EmptyDoc),
    Doc1("readPreference", Str("secondary")),
    Doc1("readPreference", Str("primary")),
    Doc1("readPreference", RP("nearest")),
    Doc1("ignoreUndefined", Bool(TRUE)),
    Doc1("ignoreUndefined", Bool(FALSE)),
    Doc1("raw", Bool(TRUE)),
    Doc1("promoteLongs", Bool(FALSE)),
    Doc1("readConcern", Doc1("level", Str("majority"))) }

\* the numbers the caller may pass as skip or limit
Numbers == {Num(n) : n \in (0 - MaxNum)..MaxNum}

\* single options of a find call, by the step of find that reads them
ProjectionItems ==
  { KV("projection", v) : v \in { Arr(<<>>), Arr(<<Str("a")>>), Arr(<<Str("a"), Str("b")>>),
                                  Doc1("a", Num(1)), Null } }
FieldsItems ==
  { KV("fields", v) : v \in { Arr(<<>>), Arr(<<Str("b")>>), Doc1("b", Num(1)) } }
SkipItems == { KV("skip", v) : v \in Numbers }
LimitItems == { KV("limit", v) : v \in Numbers }
TimeoutItems == { KV("timeout", v) : v \in { Bool(TRUE), Bool(FALSE), Num(1), Null } }
NoCursorTimeoutItems == { KV("noCursorTimeout", v) : v \in { Bool(TRUE), Bool(FALSE) } }
SlaveOkItems == { KV("slaveOk", v) : v \in { Bool(TRUE), Bool(FALSE) } }
ReadPreferenceItems ==
  { KV("readPreference", v) : v \in { Str("primary"), Str("secondary"), RP("primary"), RP("secondary") } }
SortItems ==
  { KV("sort", v) : v \in { Str("a"),
                            Arr(<<Arr(<<Str("a"), Num(1)>>)>>),
                            Arr(<<Arr(<<Str("a"), Num(1)>>), Arr(<<Str("b"), Num(0 - 1)>>)>>),
                            Arr(<<Arr(<<Str("b"), Num(0 - 1)>>), Arr(<<Str("a"), Num(1)>>)>>),
                            OrderedDoc(<<[field |-> "a", dir |-> Num(1)]>>),
                            OrderedDoc(<<[field |-> "a", dir |-> Num(1)], [field |-> "b", dir |-> Num(0 - 1)]>>) } }
OtherItems ==
  { KV("raw", Bool(TRUE)), KV("raw", Bool(FALSE)), KV("allowDiskUse", Bool(TRUE)),
    KV("awaitdata", Bool(TRUE)), KV("session", Ref("session")),
    KV("collation", Doc1("locale", Str("en"))), KV("hint", Str("a")),
    KV("hint", Doc1("a", Num(1))), KV("ignoreUndefined", Bool(FALSE)),
    KV("ignoreUndefined", Bool(TRUE)), KV("promoteLongs", Bool(FALSE)) }

\* the index hints assigned to a collection
Hints == { Str("a"), Doc1("a", Num(1)) }

\* the pairs of items a and b taken together
Both(A, B) == { Assign(a, b) : a \in A, b \in B }

\* the options objects passed to find
FindOptionDocs ==
  {EmptyDoc} \cup ProjectionItems \cup FieldsItems \cup SkipItems \cup LimitItems
    \cup TimeoutItems \cup NoCursorTimeoutItems \cup SlaveOkItems \cup ReadPreferenceItems
    \cup SortItems \cup OtherItems
    \cup Both(ProjectionItems, FieldsItems) \cup Both(ProjectionItems, TimeoutItems)
    \cup Both(SkipItems, LimitItems) \cup Both(ReadPreferenceItems, SlaveOkItems)
    \cup Both(TimeoutItems, NoCursorTimeoutItems) \cup Both(SortItems, ProjectionItems)

\* the values passed to find in the options position
FindOptionArgs == {Undefined, Null, Fn("callback")} \cup {Obj(d) : d \in FindOptionDocs}

\* a buffer of len bytes whose first four bytes declare the length
\* declared + high * 2^24, little-endian
BufferOf(len, declared, high) ==
  Buf([i \in 1..len |-> IF i = 1 THEN declared ELSE IF i = 4 THEN high ELSE 0])

Buffers ==
  { BufferOf(len, declared, high) : len \in 0..MaxBufLen, declared \in 0..(MaxBufLen + 1),
                                    high \in {0, 1, 128} }

\* the values passed to find as the query, raw buffers apart
Queries ==
  { Undefined, Null, Obj(EmptyDoc), Doc1("_id", Num(5)), Doc1("a", Num(1)),
    Arr(<<>>), Arr(<<Doc1("a", Num(1))>>), Fn("callback"), ObjectID(1),
    Str("a"), Num(5), Bool(TRUE) }

\* the queries passed to find together with every options value
QueriesWithOptions ==
  { Undefined, Obj(EmptyDoc), Doc1("_id", Num(5)), Arr(<<Doc1("a", Num(1))>>), ObjectID(1) }

\* the argument lists of the calls to find
FindArgs ==
  {<<>>} \cup { <<q>> : q \in Queries \cup Buffers }
    \cup { <<q, o>> : q \in QueriesWithOptions, o \in FindOptionArgs }
    \cup { <<q, o>> : q \in Queries, o \in {Undefined, Null, Fn("callback"), Obj(EmptyDoc)} }
    \cup { <<q, o>> : q \in Buffers, o \in {Obj(EmptyDoc), Obj(KV("projection", Arr(<<Str("a")>>)))} }
    \cup { <<q, o, x>> : q \in {Obj(EmptyDoc), Doc1("_id", Num(5))},
                         o \in {Undefined, Obj(EmptyDoc)},
                         x \in {Undefined, Fn("callback")} }

\* the callback a caller passes
Callback == Fn("callback")

\* the options objects passed to the methods other than find
OptionDocs ==
  { EmptyDoc, KV("keepGoing", Bool(TRUE)), KV("keepGoing", Bool(FALSE)),
    KV("ordered", Bool(TRUE)), KV("ordered", Bool(FALSE)),
    [keepGoing |-> Bool(TRUE), ordered |-> Bool(TRUE)],
    KV("ignoreUndefined", Bool(TRUE)), KV("ignoreUndefined", Bool(FALSE)),
    KV("raw", Bool(TRUE)),
    KV("readPreference", Str("secondary")), KV("readPreference", Str("primary")),
    KV("remove", Bool(FALSE)), KV("maxTimeMS", Num(5)),
    KV("out", Str("results")), KV("finalize", Fn("finalize")),
    [finalize |-> Fn("finalize"), out |-> Str("results")],
    [finalize |-> Str("function finalize"), out |-> Str("results")] }

\* the values passed in an options position that is not taken by a callback
OptionArgs == {Undefined, Null} \cup {Obj(d) : d \in OptionDocs}

\* the argument lists f(x), f(x, cb), f(x, options), f(x, options, cb) of a
\* method with required arguments x, optional options and optional callback
ArgLists(required) ==
  { x : x \in required } \cup { Append(x, Callback) : x \in required }
    \cup { Append(x, o) : x \in required, o \in OptionArgs }
    \cup { Append(Append(x, o), Callback) : x \in required, o \in OptionArgs }

\* the document and the operation lists passed to the write methods
Document == Doc1("a", Num(1))
BulkWriteArgs ==
  ArgLists({ <<Arr(<<Doc1("insertOne", Doc1("document", Document))>>)>>, <<Arr(<<>>)>>,
             <<Doc1("insertOne", Doc1("document", Document))>> })
Sorts == { Arr(<<>>), Arr(<<Arr(<<Str("a"), Num(1)>>)>>) }
FindAndModifyArgs ==
  { <<Document>>, <<Document, Callback>> }
    \cup ArgLists({ <<Document>> \o <<sort>> : sort \in Sorts })
    \cup ArgLists({ <<Document, sort, Doc1("b", Num(2))>> : sort \in Sorts })
FindAndRemoveArgs ==
  { <<Document>>, <<Document, Callback>> }
    \cup ArgLists({ <<Document>> \o <<sort>> : sort \in Sorts })
BulkOpArgs == { <<>> } \cup { <<o>> : o \in OptionArgs }
\* a pipeline stage and the options objects passed to aggregate
Stage == Doc1("$match", Document)
AggregateOptionArgs ==
  { Undefined, Null, Obj(EmptyDoc), Doc1("maxTimeMS", Num(5)), Doc1("maxTimeMS", Num(0)),
    Doc1("allowDiskUse", Bool(TRUE)), Doc1("allowDiskUse", Bool(FALSE)),
    Doc1("readPreference", Str("secondary")), Doc1("cursor", Doc1("batchSize", Num(1))),
    Doc1("collation", Doc1("locale", Str("en"))), Doc1("ignoreUndefined", Bool(FALSE)) }
Pipelines == { Arr(<<>>), Arr(<<Stage>>), Arr(<<Stage, Doc1("$limit", Num(1))>>) }
AggregateArgs ==
  { <<>>, <<Callback>>, <<Callback, Callback>>, <<Callback, Obj(EmptyDoc)>>, <<Stage>>,
    <<Stage, Doc1("$limit", Num(1))>>, <<Undefined>>, <<Null, Obj(EmptyDoc)>> }
    \cup { <<p>> : p \in Pipelines } \cup { <<p, Callback>> : p \in Pipelines }
    \cup { <<p, o>> : p \in Pipelines \cup {Stage}, o \in AggregateOptionArgs }
    \cup { <<p, o, x>> : p \in {Arr(<<Stage>>), Stage, Callback},
                         o \in {Undefined, Obj(EmptyDoc), Stage, Callback},
                         x \in {Undefined, Callback, Doc1("maxTimeMS", Num(5))} }
FindOneArgs ==
  { <<>>, <<Callback>>, <<Callback, Obj(EmptyDoc)>> }
    \cup ArgLists({ <<Document>>, <<Null>> })
    \cup { <<Document, o, x>> : o \in {Undefined, Obj(EmptyDoc), Callback},
                                x \in {Null, Undefined, Str("x"), Obj(EmptyDoc)} }
GroupKeys == { Arr(<<Str("a")>>), Doc1("a", Num(1)), Obj(EmptyDoc), Fn("keyf") }
GroupLeading == { <<keys, Obj(EmptyDoc), Doc1("count", Num(0))>> : keys \in GroupKeys }
GroupArgs ==
  GroupLeading \cup { Append(x, Callback) : x \in GroupLeading }
    \cup { x \o y : x \in GroupLeading,
                     y \in { <<Fn("reduce")>>, <<Fn("reduce"), Callback>>,
                             <<Str("function reduce"), Fn("finalize")>>,
                             <<Fn("reduce"), Fn("finalize"), Callback>>,
                             <<Fn("reduce"), Bool(TRUE)>>, <<Fn("reduce"), Bool(FALSE), Callback>>,
                             <<Fn("reduce"), Null, Callback>>,
                             <<Fn("reduce"), Fn("finalize"), Null, Callback>>,
                             <<Fn("reduce"), Fn("finalize"), Bool(FALSE), Callback>>,
                             <<Fn("reduce"), Bool(TRUE), Doc1("maxTimeMS", Num(5))>>,
                             <<Fn("reduce"), Bool(TRUE), Doc1("maxTimeMS", Num(5)), Callback>> } }
    \cup ArgLists({ x \o <<Fn("reduce"), Fn("finalize"), c>> :
                      x \in { <<Arr(<<Str("a")>>), Obj(EmptyDoc), Doc1("count", Num(0))>> },
                      c \in {Bool(TRUE), Null} })
UpdateArgs == ArgLists({ <<Document, Doc1("$set", Doc1("b", Num(2)))>> })
DeleteArgs ==
  { <<>>, <<Callback>> } \cup ArgLists({ <<Document>>, <<Null>>, <<Undefined>> })

----------------------------------------------------------------------------
(* The state machine *)

NoCall == [args |-> <<>>, options |-> Undefined, method |-> ""]

\* the entry points wrapped by deprecate
DeprecatedMethods ==
  { "insert", "update", "remove", "dropAllIndexes", "ensureIndex", "count", "findAndModify",
    "findAndRemove", "group" }

\* the message each deprecated entry point is wrapped with
DeprecationMessage(method) ==
  CASE method = "insert" ->
         "collection.insert is deprecated. Use insertOne, insertMany or bulkWrite instead."
    [] method = "update" ->
         "collection.update is deprecated. Use updateOne, updateMany, or bulkWrite instead."
    [] method = "remove" ->
         "collection.remove is deprecated. Use deleteOne, deleteMany, or bulkWrite instead."
    [] method = "dropAllIndexes" ->
         "collection.dropAllIndexes is deprecated. Use dropIndexes instead."
    [] method = "ensureIndex" ->
         "collection.ensureIndex is deprecated. Use createIndexes instead."
    [] method = "count" ->
         "collection.count is deprecated, and will be removed in a future version. Use Collection.countDocuments or Collection.estimatedDocumentCount instead"
    [] method = "findAndModify" ->
         "collection.findAndModify is deprecated. Use findOneAndUpdate, findOneAndReplace or findOneAndDelete instead."
    [] method = "findAndRemove" ->
         "collection.findAndRemove is deprecated. Use findOneAndDelete instead."
    [] method = "group" ->
         "MongoDB 3.6 or higher no longer supports the group command. We recommend rewriting using the aggregation framework."

\* a collection constructed in a process with the given flags of the
\* deprecation wrappers, which belong to the prototype and not to the
\* collection
Constructed(options, flags) ==
  /\ db \in DbConfigs
  /\ s = Constructor(db, "db", "coll", Null, options)
  /\ pc = "idle"
  /\ call = NoCall
  /\ op = NoOp
  /\ thrown = NoError
  /\ callerOptions = Undefined
  /\ warned = [m \in DeprecatedMethods |-> flags]
  /\ warnings = [m \in DeprecatedMethods |-> IF flags THEN 1 ELSE 0]
  /\ warning = ""

\* a collection of any configuration, in a process that has used every
\* deprecated entry point before
Init == \E options \in CollectionOptions : Constructed(options, TRUE)

\* a call of a method: its outcome is what the caller observes
Invoke(method, args, outcome) ==
  /\ pc = "idle"
  /\ pc' = "done"
  /\ call' = [args |-> args, options |-> outcome.passed, method |-> method]
  /\ thrown' = outcome.thrown
  /\ op' = outcome.op
  /\ callerOptions' = outcome.after
  /\ IF method \in DeprecatedMethods
     THEN /\ warned' = [warned EXCEPT ![method] = TRUE]
          /\ warning' = WarningOf(warned[method], DeprecationMessage(method))
          /\ warnings' = [warnings EXCEPT ![method] = WarningsAfter(warned[method], @)]
     ELSE /\ warning' = ""
          /\ UNCHANGED <<warned, warnings>>
  /\ UNCHANGED <<db, s>>

Find(args) == Invoke("find", args, FindCall(s, db, args))
InsertOne(args) == Invoke("insertOne", args, InsertOneCall(s, args))
InsertMany(args) == Invoke("insertMany", args, InsertManyCall(s, args))
BulkWrite(args) == Invoke("bulkWrite", args, BulkWriteCall(s, args))
Insert(args) == Invoke("insert", args, InsertCall(s, args))
Rename_InPlace(args) ==
  /\ pc = "idle"
  /\ pc' = "done"
  /\ call' = [args |-> args, options |-> RenameCall(s, args).passed, method |-> "rename"]
  /\ thrown' = RenameCall(s, args).thrown
  /\ op' = RenameCall(s, args).op
  /\ callerOptions' = RenameCall(s, args).after
  /\ warning' = ""
  /\ s' = [s EXCEPT !.namespace.collection = args[1].s]
  /\ UNCHANGED <<db, warned, warnings>>

Rename(args) == Invoke("rename", args, RenameCall(s, args))
DropIndex(args) == Invoke("dropIndex", args, DropIndexCall(s, args))
FindAndModify(args) == Invoke("findAndModify", args, FindAndModifyCall(s, args))
FindAndRemove(args) == Invoke("findAndRemove", args, FindAndRemoveCall(s, args))
MapReduce(args) == Invoke("mapReduce", args, MapReduceCall(s, args))
UpdateOne(args) == Invoke("updateOne", args, UpdateOneCall(s, args))
ReplaceOne(args) == Invoke("replaceOne", args, ReplaceOneCall(s, args))
UpdateMany(args) == Invoke("updateMany", args, UpdateManyCall(s, args))
DeleteOne(args) == Invoke("deleteOne", args, DeleteOneCall(s, args))
DeleteMany(args) == Invoke("deleteMany", args, DeleteManyCall(s, args))
Update(args) == Invoke("update", args, UpdateLegacyCall(s, args))
Remove(args) == Invoke("remove", args, RemoveCall(s, args))
Aggregate(args) == Invoke("aggregate", args, AggregateCall(s, args))
FindOne(args) == Invoke("findOne", args, FindOneCall(s, args))
Drop(args) == Invoke("drop", args, DropCall(s, args))
Group(args) == Invoke("group", args, GroupCall(s, args))
Count(args) == Invoke("count", args, CountCall(s, args))
DropAllIndexes(args) == Invoke("dropAllIndexes", args, DropIndexesCall(s, args))
EnsureIndex(args) == Invoke("ensureIndex", args, EnsureIndexCall(s, args))
InitializeUnorderedBulkOp(args) ==
  Invoke("initializeUnorderedBulkOp", args, InitializeUnorderedBulkOpCall(s, args))
InitializeOrderedBulkOp(args) ==
  Invoke("initializeOrderedBulkOp", args, InitializeOrderedBulkOpCall(s, args))

\* collection.hint = v
SetHint(v) ==
  /\ pc = "idle"
  /\ s' = [s EXCEPT !.collectionHint = normalizeHintField(v)]
  /\ UNCHANGED <<db, pc, call, op, thrown, callerOptions, warned, warnings, warning>>

\* the call returns to the caller (or its exception reaches the caller)
Return ==
  /\ pc = "done"
  /\ pc' = "idle"
  /\ call' = NoCall
  /\ op' = NoOp
  /\ thrown' = NoError
  /\ callerOptions' = Undefined
  /\ warning' = ""
  /\ UNCHANGED <<db, s, warned, warnings>>

Next ==
  \/ \E args \in FindArgs : Find(args)
  \/ \E args \in ArgLists({ <<Document>> }) : InsertOne(args)
  \/ \E args \in ArgLists({ <<Arr(<<Document>>)>>, <<Arr(<<Document, Doc1("b", Num(2))>>)>> }) :
       InsertMany(args)
  \/ \E args \in BulkWriteArgs : BulkWrite(args)
  \/ \E args \in ArgLists({ <<Document>>, <<Arr(<<Document>>)>> }) : Insert(args)
  \/ \E args \in ArgLists({ <<Str("renamed")>> }) : Rename(args)
  \/ \E args \in ArgLists({ <<Str("a_1")>> }) : DropIndex(args)
  \/ \E args \in FindAndModifyArgs : FindAndModify(args)
  \/ \E args \in FindAndRemoveArgs : FindAndRemove(args)
  \/ \E args \in ArgLists({ <<Fn("map"), Fn("reduce")>>, <<Str("function map"), Fn("reduce")>> }) :
       MapReduce(args)
  \/ \E args \in BulkOpArgs : InitializeUnorderedBulkOp(args)
  \/ \E args \in BulkOpArgs : InitializeOrderedBulkOp(args)
  \/ \E args \in UpdateArgs : UpdateOne(args)
  \/ \E args \in UpdateArgs : ReplaceOne(args)
  \/ \E args \in UpdateArgs : UpdateMany(args)
  \/ \E args \in DeleteArgs : DeleteOne(args)
  \/ \E args \in DeleteArgs : DeleteMany(args)
  \/ \E args \in UpdateArgs : Update(args)
  \/ \E args \in DeleteArgs : Remove(args)
  \/ \E args \in AggregateArgs : Aggregate(args)
  \/ \E args \in FindOneArgs : FindOne(args)
  \/ \E args \in ArgLists({ <<>> }) : Drop(args)
  \/ \E args \in GroupArgs : Group(args)
  \/ \E args \in { <<>>, <<Callback>>, <<Document, Callback, Obj(EmptyDoc)>> }
                    \cup ArgLists({ <<Document>>, <<Null>>, <<Undefined>>, <<Obj(EmptyDoc)>> }) :
       Count(args)
  \/ \E args \in { <<>>, <<Callback>>, <<Obj(EmptyDoc)>>, <<Null>>,
                    <<Doc1("maxTimeMS", Num(5)), Callback>>, <<Doc1("maxTimeMS", Str("5"))>> } :
       DropAllIndexes(args)
  \/ \E args \in { <<Str("a")>>, <<Doc1("a", Num(1)), Callback>>, <<Str("a"), Null>>,
                    <<Str("a"), Doc1("unique", Bool(TRUE))>>,
                    <<Str("a"), Doc1("unique", Bool(TRUE)), Callback>> } :
       EnsureIndex(args)
  \/ \E v \in Hints : SetHint(v)
  \/ Return

Spec == Init /\ [][Next]_vars

\* a collection in a process that has not used any deprecated entry point
DeprecationInit == Constructed(Obj(EmptyDoc), FALSE)

\* the calls of the deprecated entry points
DeprecationNext ==
  \/ \E args \in { <<Document>>, <<Arr(<<Document>>), Callback>> } : Insert(args)
  \/ \E args \in { <<Document, Doc1("$set", Doc1("b", Num(2)))>>,
                    <<Document, Doc1("$set", Doc1("b", Num(2))), Obj(EmptyDoc), Callback>> } :
       Update(args)
  \/ \E args \in { <<Document>>, <<Null, Callback>> } : Remove(args)
  \/ \E args \in { <<>>, <<Doc1("maxTimeMS", Num(5)), Callback>> } : DropAllIndexes(args)
  \/ \E args \in { <<Str("a")>>, <<Str("a"), Doc1("unique", Bool(TRUE)), Callback>> } :
       EnsureIndex(args)
  \/ \E args \in { <<>>, <<Document, Callback>> } : Count(args)
  \/ \E args \in { <<Document, Arr(<<>>), Doc1("b", Num(2))>>, <<Document, Callback>> } :
       FindAndModify(args)
  \/ \E args \in { <<Document>>, <<Document, Arr(<<>>), Obj(EmptyDoc), Callback>> } :
       FindAndRemove(args)
  \/ \E args \in { <<Arr(<<Str("a")>>), Obj(EmptyDoc), Doc1("count", Num(0)), Fn("reduce")>>,
                    <<Arr(<<Str("a")>>), Obj(EmptyDoc), Doc1("count", Num(0)), Fn("reduce"),
                      Fn("finalize"), Bool(TRUE), Callback>> } : Group(args)
  \/ Return

DeprecationSpec == DeprecationInit /\ [][DeprecationNext]_vars

----------------------------------------------------------------------------
(* Properties of find *)

\* a call to find has run
FindCalled == pc = "done" /\ call.method = "find"

\* a call to find has built its cursor
FindBuilt == FindCalled /\ op.kind = "FindOperation"

\* the arguments of the call
CallQuery == Arg(call.args, 1)
CallOptions == Arg(call.args, 2)

\* the keys and values of the options object the caller passed to find
CallOptionDoc == IF Truthy(CallOptions) THEN Props(CallOptions) ELSE EmptyDoc

\* the arguments of the call are such that find does not reject them as arguments
FindArgsAccepted ==
  /\ Len(call.args) <= 2
  /\ TypeOf(CallQuery) # "function"
  /\ TypeOf(CallOptions) # "function"

\* a collection with no stored index hint and no read concern
PlainCollection == IsNullish(s.collectionHint) /\ IsNullish(s.readConcern)

\* find({ _id: 5 }) with no options
FindByIdCalled == FindCalled /\ call.args = <<Doc1("_id", Num(5))>>

C2_FilterIsDocument ==
  /\ FindBuilt =>
       /\ TypeOf(op.command.query) = "object"
       /\ ~IsNullish(op.command.query)
       /\ ~IsArray(op.command.query)
  /\ (FindCalled /\ FindArgsAccepted /\ IsArray(CallQuery)) =>
       /\ thrown = NoError
       /\ op.kind = "FindOperation"
       /\ op.command.query = Obj(EmptyDoc)

C2_Witness ==
  FindBuilt /\ CallQuery = Arr(<<Doc1("a", Num(1))>>) /\ op.command.query = Obj(EmptyDoc)

\* the first four bytes of a buffer, read as an unsigned little-endian
\* number, equal n (n below 2^31; a missing byte reads as 0)
DeclaresLength(bytes, n) ==
  /\ ByteAt(bytes, 3) < 128
  /\ ByteAt(bytes, 0) + 256 * ByteAt(bytes, 1) + 65536 * ByteAt(bytes, 2)
       + 16777216 * ByteAt(bytes, 3) = n

\* C3: a raw buffer passed as the query is used unchanged as the filter when
\* the little-endian length in its first four bytes equals its total length,
\* and every other buffer makes find throw an error named MongoError and build
\* no cursor
C3_BufferLength ==
  (FindCalled /\ FindArgsAccepted /\ IsBuffer(CallQuery)) =>
    IF DeclaresLength(CallQuery.bytes, Len(CallQuery.bytes))
    THEN thrown = NoError /\ op.kind = "FindOperation" /\ op.command.query = CallQuery
    ELSE thrown.name = "MongoError" /\ op = NoOp

C3_Witness ==
  /\ FindCalled
  /\ CallQuery = BufferOf(5, 4, 0)
  /\ thrown.name = "MongoError"
  /\ op = NoOp

\* the option find takes the projection from: projection when it is given,
\* else the legacy fields
GivenProjection ==
  IF ~IsNullish(Get(CallOptionDoc, "projection"))
  THEN Get(CallOptionDoc, "projection")
  ELSE Get(CallOptionDoc, "fields")

\* the inclusion document of a sequence of field names
Inclusion(names) ==
  IF names = <<>> THEN [x \in {"_id"} |-> Num(1)]
  ELSE [x \in {names[i].s : i \in DOMAIN names} |-> Num(1)]

\* C4: a projection (or legacy fields) option given as a sequence of field
\* names is compiled into the fields document of the command mapping each name
\* to 1, an empty sequence into { _id: 1 }; projection is preferred to fields
C4_ProjectionSequence ==
  (FindBuilt /\ IsArray(GivenProjection)) =>
    /\ "fields" \in DOMAIN op.command
    /\ op.command.fields = Obj(Inclusion(GivenProjection.a))

C4_Witness ==
  /\ FindBuilt
  /\ Get(CallOptionDoc, "projection") = Arr(<<Str("a"), Str("b")>>)
  /\ Get(CallOptionDoc, "fields") = Arr(<<Str("b")>>)
  /\ op.command.fields = Obj([b |-> Num(1), a |-> Num(1)])

\* the key is in both objects with one value, or in neither
SameEntry(d, e, key) == (key \in DOMAIN d <=> key \in DOMAIN e) /\ Get(d, key) = Get(e, key)

ResolvedPreference ==
  IF ~IsNullish(Get(CallOptionDoc, "readPreference")) THEN Get(CallOptionDoc, "readPreference")
  ELSE IF ~IsNullish(s.readPreference) THEN s.readPreference
  ELSE db.readPreference

\* C6: the read preference of the options handed to the find operation is the
\* one of the call, else of the collection, else of the database, and their
\* slaveOk is true whenever that preference is not primary, whatever slaveOk
\* the caller or the database supplied
C6_SlaveOkForced ==
  FindBuilt =>
    /\ Get(op.options, "readPreference") = ResolvedPreference
    /\ ModeOf(ResolvedPreference) # "primary" => Get(op.options, "slaveOk") = Bool(TRUE)

C6_Witness ==
  /\ FindBuilt
  /\ Get(CallOptionDoc, "readPreference") = RP("secondary")
  /\ Get(CallOptionDoc, "slaveOk") = Bool(FALSE)
  /\ db.slaveOk = Bool(FALSE)
  /\ Get(op.options, "slaveOk") = Bool(TRUE)

\* the sort is one of the forms the caller may give: a field name, a sequence
\* of (field, direction) pairs, a document
IsSortForm(sort) == sort.k \in {"string", "array", "ordered"}

\* the (field, direction) pairs a sort names, in order
SortPairs(sort) ==
  IF sort.k = "string" THEN <<<<sort.s, Num(1)>>>>
  ELSE IF sort.k = "array" THEN [i \in DOMAIN sort.a |-> <<sort.a[i].a[1].s, sort.a[i].a[2]>>]
  ELSE [i \in DOMAIN sort.pairs |-> <<sort.pairs[i].field, sort.pairs[i].dir>>]

\* C7: a sort given as a sequence of (field, direction) pairs, as a single
\* field name or as a document is present as sort in the built find command,
\* normalized into the canonical ordered document of the same pairs
C7_SortNormalized ==
  (FindBuilt /\ IsSortForm(Get(CallOptionDoc, "sort"))) =>
    /\ "sort" \in DOMAIN op.command
    /\ op.command.sort.k = "ordered"
    /\ SortPairs(op.command.sort) = SortPairs(Get(CallOptionDoc, "sort"))

C7_Witness ==
  /\ FindBuilt
  /\ Get(CallOptionDoc, "sort") = Arr(<<Arr(<<Str("a"), Num(1)>>), Arr(<<Str("b"), Num(0 - 1)>>)>>)
  /\ op.command.sort =
       OrderedDoc(<<[field |-> "a", dir |-> Num(1)], [field |-> "b", dir |-> Num(0 - 1)]>>)

OrZero(v) == IF IsNullish(v) \/ v = Num(0) THEN Num(0) ELSE v

----------------------------------------------------------------------------
(* Properties of the argument and option handling of every method *)

\* C9: no public method mutates the options object of the caller: after any
\* call the object has exactly the keys and values it had before the call
C9_OptionsNotMutated == pc = "done" => callerOptions = call.options

\* the number of arguments before the options position of a method
RequiredArity(method) ==
  CASE method \in {"initializeUnorderedBulkOp", "initializeOrderedBulkOp", "drop", "dropAllIndexes"} -> 0
    [] method = "group" -> 6
    [] method \in {"mapReduce", "findAndRemove", "updateOne", "replaceOne", "updateMany", "update"} -> 2
    [] method = "findAndModify" -> 3
    [] OTHER -> 1

\* the outcome of method called with args on the collection as it is
OutcomeOf(method, args) ==
  CASE method = "find" -> FindCall(s, db, args)
    [] method = "insertOne" -> InsertOneCall(s, args)
    [] method = "insertMany" -> InsertManyCall(s, args)
    [] method = "bulkWrite" -> BulkWriteCall(s, args)
    [] method = "insert" -> InsertCall(s, args)
    [] method = "rename" -> RenameCall(s, args)
    [] method = "dropIndex" -> DropIndexCall(s, args)
    [] method = "findAndModify" -> FindAndModifyCall(s, args)
    [] method = "findAndRemove" -> FindAndRemoveCall(s, args)
    [] method = "mapReduce" -> MapReduceCall(s, args)
    [] method = "initializeUnorderedBulkOp" -> InitializeUnorderedBulkOpCall(s, args)
    [] method = "initializeOrderedBulkOp" -> InitializeOrderedBulkOpCall(s, args)
    [] method = "updateOne" -> UpdateOneCall(s, args)
    [] method = "replaceOne" -> ReplaceOneCall(s, args)
    [] method = "updateMany" -> UpdateManyCall(s, args)
    [] method = "deleteOne" -> DeleteOneCall(s, args)
    [] method = "deleteMany" -> DeleteManyCall(s, args)
    [] method = "update" -> UpdateLegacyCall(s, args)
    [] method = "remove" -> RemoveCall(s, args)
    [] method = "aggregate" -> AggregateCall(s, args)
    [] method = "findOne" -> FindOneCall(s, args)
    [] method = "drop" -> DropCall(s, args)
    [] method = "group" -> GroupCall(s, args)
    [] method = "count" -> CountCall(s, args)
    [] method = "dropAllIndexes" -> DropIndexesCall(s, args)
    [] method = "ensureIndex" -> EnsureIndexCall(s, args)

\* the arguments of the call before, and from, its options position
CallRequired == SubSeq(call.args, 1, RequiredArity(call.method))
CallOptional == SubSeq(call.args, RequiredArity(call.method) + 1, Len(call.args))

\* C10: omitting the options and passing an explicit {} give the same
\* normalized (arguments, options, callback), with or without a trailing
\* callback: f(x), f(x, cb), f(x, {}) and f(x, {}, cb) hand the operation the
\* options that f(x, {}) hands it, and the trailing callback when there is one
C10_OmittedIsEmpty ==
  ( /\ pc = "done"
    /\ thrown = NoError
    /\ Len(call.args) >= RequiredArity(call.method)
    /\ CallOptional \in { <<>>, <<Callback>>, <<Obj(EmptyDoc)>>, <<Obj(EmptyDoc), Callback>> } ) =>
    LET explicit == OutcomeOf(call.method, Append(CallRequired, Obj(EmptyDoc)))
    IN /\ explicit.thrown = NoError
       /\ op.options = explicit.op.options
       /\ [op EXCEPT !.callback = Undefined] = explicit.op
       /\ op.callback = IF Callback \in {CallOptional[i] : i \in DOMAIN CallOptional}
                        THEN Callback ELSE Undefined

----------------------------------------------------------------------------
(* Properties of the callback handling *)

\* the methods that accept a completion callback
CallbackMethods ==
  { "insertOne", "insertMany", "bulkWrite", "insert", "rename", "dropIndex", "findAndModify",
    "findAndRemove", "mapReduce", "updateOne", "replaceOne", "updateMany", "deleteOne",
    "deleteMany", "update", "remove", "findOne", "drop", "group" }

\* the last argument of the call
LastArg == Arg(call.args, Len(call.args))

\* the number of leading arguments a method cannot be called without: the
\* ones before its first optional position (the sort of findAndModify and
\* findAndRemove, the filter of deleteMany, remove and findOne, which may be
\* a callback, and the options of the others)
LeadingArity(method) ==
  CASE method \in {"deleteMany", "remove", "findOne", "drop"} -> 0
    [] method \in {"mapReduce", "updateOne", "replaceOne", "updateMany", "update"} -> 2
    [] method = "group" -> 3
    [] OTHER -> 1

\* a call that dispatched an operation was given a function as its last argument
DispatchedWithCallback ==
  /\ pc = "done"
  /\ call.method \in CallbackMethods
  /\ thrown = NoError
  /\ Len(call.args) > LeadingArity(call.method)
  /\ TypeOf(LastArg) = "function"

\* C11: for every method that accepts a completion callback, a function given
\* as the last argument is the callback of the dispatched operation, whatever
\* the preceding arguments are; so for deleteMany(null, cb),
\* deleteMany(null, options, cb) and remove(null, cb)
C11_TrailingCallback == DispatchedWithCallback => op.callback = LastArg

----------------------------------------------------------------------------
(* Properties of the validation of the arguments *)

\* a call of method has run
Called(method) == pc = "done" /\ call.method = method

\* the call passes a function as the query or pipeline, a function as the
\* options, or more than two arguments
MisusesCursorArguments ==
  \/ Len(call.args) > 2
  \/ TypeOf(Arg(call.args, 1)) = "function"
  \/ TypeOf(Arg(call.args, 2)) = "function"

\* C12: find and aggregate throw a TypeError and build no cursor whenever the
\* query or pipeline argument is a function, whenever the options argument is
\* a function, and whenever more than two arguments are given
C12_CursorArgumentsChecked ==
  ((Called("find") \/ Called("aggregate")) /\ MisusesCursorArguments) =>
    thrown.name = "TypeError" /\ op = NoOp

C12_Witness ==
  /\ Called("aggregate")
  /\ call.args = <<Arr(<<Stage>>), Callback>>
  /\ thrown = TypeError("options parameter must not be function")
  /\ op = NoOp

\* C13 as stated: bulkWrite fails and dispatches no operation whenever its
\* operations argument is not a non-empty array: for a value that is not an
\* array and for the empty array
C13_RejectsNonArrayAndEmpty ==
  (Called("bulkWrite") /\ (~IsArray(Arg(call.args, 1)) \/ Arg(call.args, 1) = Arr(<<>>))) =>
    thrown # NoError /\ op = NoOp

\* C13 amended: bulkWrite fails with the MongoError 'operations must be an
\* array of documents' and dispatches no operation exactly when its
\* operations argument is not an array; every array, the empty one included,
\* is dispatched unchanged in a BulkWriteOperation
C13_RejectsNonArray ==
  Called("bulkWrite") =>
    IF IsArray(Arg(call.args, 1))
    THEN thrown = NoError /\ op.kind = "BulkWriteOperation" /\ op.payload = Arg(call.args, 1)
    ELSE thrown = MongoError("operations must be an array of documents") /\ op = NoOp

C13_Witness ==
  /\ Called("bulkWrite")
  /\ call.args = <<Doc1("insertOne", Doc1("document", Document)), Obj(EmptyDoc), Callback>>
  /\ thrown.name = "MongoError"
  /\ op = NoOp

\* the options of the mapReduce call once a callback in their position has
\* been replaced by {}
MapReduceOptions == ShiftedOptions(call.args, 3)

\* C14: mapReduce fails with the error 'the out option parameter must be
\* defined, ...' and dispatches no operation whenever no output target is set:
\* when options.out is null or undefined, when the options are omitted, and
\* when a callback is passed in the options position
C14_OutRequired ==
  (Called("mapReduce") /\ IsNullish(Prop(MapReduceOptions, "out"))) =>
    /\ thrown = Error("the out option parameter must be defined, see mongodb docs for possible values")
    /\ op = NoOp

\* the call threw
Threw == pc = "done" /\ thrown # NoError

\* C15: every error of this layer is raised before any operation is handed to
\* the executor: a call to find, aggregate, findOne, bulkWrite or mapReduce
\* that throws has built no operation and no cursor
C15_ThrowsBeforeDispatch ==
  (Threw /\ call.method \in {"find", "aggregate", "findOne", "bulkWrite", "mapReduce"}) =>
    op = NoOp

C15_Witness ==
  /\ Called("findOne")
  /\ call.args = <<Document, Obj(EmptyDoc), Str("x")>>
  /\ thrown.name = "TypeError"
  /\ op = NoOp

----------------------------------------------------------------------------
(* Properties of the resolution of the options *)

\* the insert, update and delete methods
WriteMethods ==
  { "insertOne", "insertMany", "updateOne", "updateMany", "replaceOne", "deleteOne",
    "deleteMany", "insert", "update", "remove" }

\* a call of an insert, update or delete method has dispatched an operation
WriteDispatched == pc = "done" /\ call.method \in WriteMethods /\ thrown = NoError

\* C16: on a collection whose stored options have ignoreUndefined true, the
\* options handed to the executor have ignoreUndefined true in every call of
\* insertOne, insertMany, updateOne, updateMany, replaceOne, deleteOne,
\* deleteMany and of the legacy insert, update and remove, also when the
\* caller supplies an options object of their own
C16_IgnoreUndefinedCascaded ==
  (WriteDispatched /\ Prop(s.options, "ignoreUndefined") = Bool(TRUE)) =>
    Get(op.options, "ignoreUndefined") = Bool(TRUE)

\* the option fields that are resolved from the call, the collection and the
\* database
ResolvedKeys == {"raw", "promoteLongs", "promoteValues", "promoteBuffers", "ignoreUndefined"}

\* the value the collection stores for a resolved field: the one it was
\* constructed with, else the one of the database
StoredValue(key) == IF key = "ignoreUndefined" THEN Prop(s.options, key) ELSE s[key]

\* C17: for each of raw, promoteLongs, promoteValues, promoteBuffers and
\* ignoreUndefined, a value explicitly present in the call options is the
\* value in the options handed to the operation, in find and in the write
\* methods, also for a call that passes ignoreUndefined: false on a
\* collection configured with ignoreUndefined true; a field that a call of
\* find does not set has the value the collection stores, which is the
\* database's when the collection was constructed without it
C17_CallOptionsWin ==
  ((WriteDispatched \/ (Called("find") /\ thrown = NoError))) =>
    \A key \in ResolvedKeys :
      IF ~IsNullish(Prop(call.options, key))
      THEN Get(op.options, key) = Prop(call.options, key)
      ELSE call.method = "find" => Get(op.options, key) = StoredValue(key)

----------------------------------------------------------------------------
(* Properties of the forcing of the read preference *)

\* a call of method has dispatched an operation
Dispatched(method) == Called(method) /\ thrown = NoError

\* the read preference in the options handed to the executor
HandedReadPreference == Get(op.options, "readPreference")

\* C18: rename and dropIndex always hand the executor options whose read
\* preference is primary, whatever the read preference in the caller's
\* options and the one configured for the collection or the database
C18_RenameDropIndexPrimary ==
  (Dispatched("rename") \/ Dispatched("dropIndex")) => HandedReadPreference = PRIMARY

C18_Witness ==
  /\ Dispatched("rename")
  /\ Prop(call.options, "readPreference") = Str("secondary")
  /\ Prop(s.options, "readPreference") = Str("secondary")
  /\ db.readPreference = Str("secondary")
  /\ HandedReadPreference = PRIMARY

\* C19: drop always hands the executor options whose read preference is
\* forced to primary, whatever the caller's options and the read preference
\* configured for the collection
C19_DropPrimary == Dispatched("drop") => HandedReadPreference = PRIMARY

\* the legacy entry points that work on the primary
LegacyPrimaryMethods == {"findAndModify", "findAndRemove", "group"}

\* C20: findAndModify, findAndRemove and group each hand the executor options
\* whose read preference is primary, for every call shape and whatever the
\* read preference in the caller's options
C20_LegacyPrimary ==
  (pc = "done" /\ call.method \in LegacyPrimaryMethods /\ thrown = NoError) =>
    HandedReadPreference = PRIMARY

----------------------------------------------------------------------------
(* Properties of the legacy entry points *)

\* insert(doc, {}) has dispatched its operation, with or without a callback
InsertedWithEmptyOptions ==
  /\ Dispatched("insert")
  /\ Len(call.args) >= 2
  /\ ~IsArray(Arg(call.args, 1))
  /\ Arg(call.args, 2) = Obj(EmptyDoc)

\* C21: insert(doc, {}) and insertMany([doc], { ordered: true }) hand the
\* executor the same insert-many operation: the same document sequence [doc]
\* and equal options, the value of ordered included
C21_InsertEquivalence ==
  InsertedWithEmptyOptions =>
    op = InsertManyCall(s, <<Arr(<<Arg(call.args, 1)>>), Doc1("ordered", Bool(TRUE))>>
                             \o SubSeq(call.args, 3, Len(call.args))).op

\* C22: the legacy insert always delegates to insertMany with a document
\* sequence, a single document being wrapped into a one-element sequence,
\* and the options it delegates with ask for unordered batching
\* (ordered: false) only when the caller set keepGoing to true (or passed
\* ordered: false themselves); in every other call shape, insert(docs) and
\* insert(docs, cb) included, batching is ordered
C22_UnorderedOnlyWhenKeepGoing ==
  Dispatched("insert") =>
    /\ op.kind = "InsertManyOperation"
    /\ op.payload = IF IsArray(Arg(call.args, 1)) THEN Arg(call.args, 1)
                    ELSE Arr(<<Arg(call.args, 1)>>)
    /\ Get(op.options, "ordered") = Bool(FALSE) =>
         \/ Prop(Arg(call.args, 2), "keepGoing") = Bool(TRUE)
         \/ Prop(Arg(call.args, 2), "ordered") = Bool(FALSE)

\* C23: the legacy count dispatches the estimated-document-count operation,
\* never the count-documents operation, in every call shape: no arguments, a
\* callback only, a query, a query and options, each with or without a
\* trailing callback; an omitted query is {} and omitted options are {}
C23_CountIsEstimated ==
  Called("count") =>
    /\ thrown = NoError
    /\ op.kind = "EstimatedDocumentCountOperation"
    /\ Len(Popped(call.args)) = 0 => op.payload = Obj(EmptyDoc)
    /\ Len(Popped(call.args)) <= 1 => op.options = EmptyDoc
    /\ HasTrailingCallback(call.args) => op.callback = LastArg

C23_Witness ==
  /\ Called("count")
  /\ call.args = <<Document, Doc1("maxTimeMS", Num(5)), Callback>>
  /\ op.kind = "EstimatedDocumentCountOperation"
  /\ op.payload = Document
  /\ op.options = KV("maxTimeMS", Num(5))

\* a call of a deprecated entry point has run
DeprecatedCalled == pc = "done" /\ call.method \in DeprecatedMethods

\* C24: over any sequence of calls of the deprecated entry points insert,
\* update, remove, count, findAndModify, findAndRemove, group, dropAllIndexes
\* and ensureIndex, each entry point emits its deprecation warning at most
\* once, on its first use; the warning is never an error and every call,
\* warned or not, dispatches its operation
C24_WarnsOnceAndDispatches ==
  /\ \A m \in DeprecatedMethods : warnings[m] <= 1
  /\ DeprecatedCalled =>
       /\ warnings[call.method] = 1
       /\ thrown = NoError
       /\ op # NoOp

\* a later call of ensureIndex, which does not warn any more, after calls of
\* which insert has warned too
C24_Witness ==
  /\ Called("ensureIndex")
  /\ warning = ""
  /\ warnings["ensureIndex"] = 1
  /\ warnings["insert"] = 1
  /\ warnings["group"] = 0
  /\ op.kind = "EnsureIndexOperation"

----------------------------------------------------------------------------
(* Properties of the stored state of the collection *)

\* C25: under any interleaving of calls on the same collection, every call
\* of a method leaves the stored state of the collection (namespace,
\* primary-key factory, read preference, read and write concern,
\* serialization flags, stored options, hints) unchanged; only the assignment
\* to hint changes it, and only the hint; the namespace is never changed
C25_StoredStateReadOnly ==
  [][ /\ pc' = "done" => s' = s
      /\ [s' EXCEPT !.collectionHint = s.collectionHint] = s
      /\ s'.namespace = s.namespace ]_vars

\* a call on a collection whose hint has been assigned after construction
C25_Witness ==
  /\ Dispatched("rename")
  /\ s.collectionHint = normalizeHintField(Doc1("a", Num(1)))
  /\ s.namespace = [db |-> "db", collection |-> "coll"]
  /\ s.internalHint = Null

----------------------------------------------------------------------------
(* Further properties of find, group and aggregate *)

\* the slaveOk of the caller when given, else the default of the database
UnforcedSlaveOk ==
  IF ~IsNullish(Get(CallOptionDoc, "slaveOk")) THEN Get(CallOptionDoc, "slaveOk") ELSE db.slaveOk

\* C26: in find, when the resolved read preference is primary, slaveOk is not
\* forced to true: it is the slaveOk option of the caller when given, else
\* the slaveOk default of the database
C26_PrimaryKeepsSlaveOk ==
  (FindBuilt /\ ModeOf(ResolvedPreference) = "primary") =>
    Get(op.options, "slaveOk") = UnforcedSlaveOk

\* C27: find rejects a query that is not an object with the error 'query
\* selector must be an object': for a query that is a string, a number or a
\* boolean the error is raised and no cursor is built
C27_NonObjectQueryRejected ==
  (FindCalled /\ FindArgsAccepted /\ TypeOf(CallQuery) \in {"string", "number", "boolean"}) =>
    /\ thrown = MongoError("query selector must be an object")
    /\ op = NoOp

\* the arguments of the group call after initial, the callback apart
GroupRest == Popped(Rest(call.args, 3))

\* the call of group has the shape that omits finalize
OmitsFinalize == Len(GroupRest) >= 2 /\ TypeOf(GroupRest[2]) # "function"

\* the command argument of the group call, null when it is omitted
GroupCommand ==
  IF OmitsFinalize THEN GroupRest[2]
  ELSE IF Len(GroupRest) >= 3 THEN GroupRest[3]
  ELSE Null

\* C28: group selects its execution path from the command argument: the
\* internal group command operation is dispatched when command is true or
\* omitted, the eval-based group operation when the caller passes false
C28_CommandSelectsPath ==
  Dispatched("group") =>
    op.kind = IF GroupCommand = Bool(FALSE) THEN "EvalGroupOperation" ELSE "GroupOperation"

\* C29: in the call shape that omits finalize, group(keys, condition,
\* initial, reduce, command, options, callback), the options object of the
\* caller is the options handed to the dispatched operation, as in the full
\* call shape with a finalize function
C29_OptionsKeptWithoutFinalize ==
  (Dispatched("group") /\ OmitsFinalize /\ Len(GroupRest) >= 3 /\ GroupRest[3].k = "object") =>
    op.options = Props(GroupRest[3])

\* the last argument of the call is an object that carries one of the options
\* of aggregate, whatever its value
LastArgNamesAggregateOption ==
  /\ Len(call.args) > 0
  /\ LastArg.k = "object"
  /\ DOMAIN LastArg.o \cap AGGREGATE_OPTION_KEYS # {}

\* C30: when aggregate is called with a pipeline that is not an array, an
\* options object passed as the last argument is taken as the options and
\* never as a pipeline stage, whatever the values of its keys (so for
\* { allowDiskUse: false } or { explain: false }), and the pipeline handed to
\* the operation is the sequence of the remaining arguments
C30_LastOptionsObjectIsOptions ==
  (Dispatched("aggregate") /\ ~IsArray(Arg(call.args, 1)) /\ LastArgNamesAggregateOption) =>
    /\ op.options = LastArg.o
    /\ op.payload = Arr(SubSeq(call.args, 1, Len(call.args) - 1))

====
